---- MODULE Spec2Model ----
(***************************************************************************)
(* A model of dagster/_core/definitions/asset_graph_subset.py:             *)
(* AssetGraphSubset, its set algebra (_oper, __or__, __sub__, __and__,     *)
(* filter_asset_keys), its queries (asset_keys, __contains__), its         *)
(* builder from_asset_partition_set and its storage format                 *)
(* (to_storage_dict, can_deserialize, from_storage_dict).                  *)
(***************************************************************************)
EXTENDS Integers, FiniteSets, Sequences, TLC

\* ---------------------------------------------------------------- bounds
NumAssetKeys == 2
NumPartitionKeys == 1

AssetKeys == 1..NumAssetKeys
PartitionKeys == 1..NumPartitionKeys

\* The PartitionsDefinitions an asset graph gives its assets: one of each of
\* two classes.
PartitionsDefs == {"static_partitions_def", "daily_partitions_def"}

\* Python's None where a partition key is expected
\* (AssetKeyPartitionKey.partition_key is Optional[str]).
NoPartitionKey == 0
\* Python's None where a PartitionsDefinition is expected.
NoPartitionsDef == "None"

VARIABLES
    self,                  \* the AssetGraphSubset the caller holds (left operand)
    other,                 \* a second AssetGraphSubset (right operand)
    last,                  \* the last algebra call: operator, operands, outcome
    asset_partitions_set,  \* the argument of from_asset_partition_set
    built,                 \* the outcome of from_asset_partition_set
    asset_graph,           \* the current AssetGraph
    stored,                \* the stored document (serialized_dict)
    written,               \* the subset the stored document was written from
    drifted,               \* the graph changed since the document was written
    outcome                \* the last storage call and its outcome

algebra_vars == <<self, other, last>>
pairs_vars == <<asset_partitions_set, built>>
storage_vars == <<asset_graph, stored, written, drifted, outcome>>
vars == <<algebra_vars, pairs_vars, storage_vars>>

\* ------------------------------------------------------ AssetGraphSubset
\* class AssetGraphSubset(NamedTuple): a mapping AssetKey -> PartitionsSubset
\* (a function on the set of its keys; a PartitionsSubset is taken by the
\* set of its partition keys) and a set of AssetKeys.
AssetGraphSubset(partitions_subsets, non_partitioned) ==
    [partitions_subsets_by_asset_key |-> partitions_subsets,
     non_partitioned_asset_keys |-> non_partitioned]

\* The default field values: {} and set().
EmptyAssetGraphSubset == AssetGraphSubset(<<>>, {})

\* Every value of the NamedTuple over the bounded keys.
AllAssetGraphSubsets ==
    { AssetGraphSubset(m, n) :
        m \in UNION { [D -> SUBSET PartitionKeys] : D \in SUBSET AssetKeys },
        n \in SUBSET AssetKeys }

\* len(subset): PartitionsSubset.__len__
Len_(subset) == Cardinality(subset)

\* AssetGraphSubset.asset_keys
asset_keys(s) ==
    { key \in DOMAIN s.partitions_subsets_by_asset_key :
        Len_(s.partitions_subsets_by_asset_key[key]) > 0 }
    \cup s.non_partitioned_asset_keys

\* AssetGraphSubset.__contains__ on an AssetKey
contains_asset_key(s, asset) ==
    \/ /\ asset \in DOMAIN s.partitions_subsets_by_asset_key
       /\ Len_(s.partitions_subsets_by_asset_key[asset]) > 0
    \/ asset \in s.non_partitioned_asset_keys

\* AssetGraphSubset.__contains__ on an AssetKeyPartitionKey
contains_asset_partition(s, asset_key, partition_key) ==
    IF partition_key = NoPartitionKey
    THEN asset_key \in s.non_partitioned_asset_keys
    ELSE /\ asset_key \in DOMAIN s.partitions_subsets_by_asset_key
         /\ partition_key \in s.partitions_subsets_by_asset_key[asset_key]

\* oper(a, b) for operator.or_, operator.sub, operator.and_ on Python sets.
apply_oper(oper, a, b) ==
    CASE oper = "or" -> a \cup b
      [] oper = "sub" -> a \ b
      [] oper = "and" -> a \cap b

\* oper(subset, other_subset) on PartitionsSubsets: PartitionsSubset.__or__,
\* __sub__, __and__, the set operation on the partition keys.
subset_oper(oper, subset, other_subset) ==
    CASE oper = "or" -> subset \cup other_subset
      [] oper = "sub" -> subset \ other_subset
      [] oper = "and" -> subset \cap other_subset

\* An Optional[PartitionsSubset]: None, or a subset.
NoneSubset == [is_none |-> TRUE, keys |-> {}]
SomeSubset(subset) == [is_none |-> FALSE, keys |-> subset]

\* AssetGraphSubset.get_partitions_subset(asset_key) without a graph: the
\* dictionary lookup (the caller's keys are keys of the mapping).
get_partitions_subset(s, asset_key) ==
    SomeSubset(s.partitions_subsets_by_asset_key[asset_key])

\* A faulty variant of OperInit: the result starts empty, not as a copy of
\* self.
OperInitFromEmpty(s) ==
    [raised |-> FALSE,
     result_partition_subsets_by_asset_key |-> <<>>,
     result_non_partitioned_asset_keys |-> {}]

\* The state of the loop of _oper: the two result_ locals, and whether a
\* check.invariant has failed.
OperInit(s) ==
    [raised |-> FALSE,
     result_partition_subsets_by_asset_key |-> s.partitions_subsets_by_asset_key,
     result_non_partitioned_asset_keys |-> s.non_partitioned_asset_keys]

\* A faulty variant of OperInvariant: neither check.invariant is made.
OperInvariantUnchecked(s, o, asset_key) == TRUE

\* The two check.invariant calls of _oper, for one asset_key of other.
OperInvariant(s, o, asset_key) ==
    IF asset_key \in o.non_partitioned_asset_keys
    THEN asset_key \notin DOMAIN s.partitions_subsets_by_asset_key
    ELSE asset_key \notin s.non_partitioned_asset_keys

\* A faulty variant of OperPartitioned: the special case for a missing left
\* subset is taken for every operator, not only for operator.or_.
OperPartitionedAbsentAsUnion(s, o, oper, result, asset_key) ==
    LET subset == IF asset_key \in DOMAIN s.partitions_subsets_by_asset_key
                  THEN get_partitions_subset(s, asset_key)
                  ELSE NoneSubset
        other_subset == get_partitions_subset(o, asset_key)
    IN  IF ~other_subset.is_none /\ ~subset.is_none
        THEN (asset_key :> subset_oper(oper, subset.keys, other_subset.keys)) @@ result
        ELSE IF subset.is_none /\ ~other_subset.is_none
        THEN (asset_key :> other_subset.keys) @@ result
        ELSE result

\* The else branch of the loop body of _oper: the partitioned asset_key.
OperPartitioned(s, o, oper, result, asset_key) ==
    LET subset == IF asset_key \in DOMAIN s.partitions_subsets_by_asset_key
                  THEN get_partitions_subset(s, asset_key)
                  ELSE NoneSubset
        other_subset == get_partitions_subset(o, asset_key)
        combined == IF ~other_subset.is_none /\ ~subset.is_none
                    THEN (asset_key :> subset_oper(oper, subset.keys, other_subset.keys))
                         @@ result
                    ELSE result
    IN  IF subset.is_none /\ ~other_subset.is_none /\ oper = "or"
        THEN (asset_key :> other_subset.keys) @@ combined
        ELSE IF ~subset.is_none /\ other_subset.is_none /\ oper = "and"
        THEN [k \in DOMAIN combined \ {asset_key} |-> combined[k]]
        ELSE combined

\* The body of the loop of _oper for one asset_key of other.asset_keys.
OperStep(s, o, oper, acc, asset_key) ==
    IF ~OperInvariant(s, o, asset_key)
    THEN [acc EXCEPT !.raised = TRUE]
    ELSE IF asset_key \in o.non_partitioned_asset_keys
    THEN [acc EXCEPT !.result_non_partitioned_asset_keys =
                        apply_oper(oper, @, {asset_key})]
    ELSE [acc EXCEPT !.result_partition_subsets_by_asset_key =
                        OperPartitioned(s, o, oper, @, asset_key)]

\* for asset_key in other.asset_keys: the loop stops at a failed
\* check.invariant.
RECURSIVE OperLoop(_, _, _, _, _)
OperLoop(s, o, oper, keys, acc) ==
    IF keys = {} \/ acc.raised
    THEN acc
    ELSE LET asset_key == CHOOSE k \in keys : TRUE
         IN  OperLoop(s, o, oper, keys \ {asset_key},
                      OperStep(s, o, oper, acc, asset_key))

\* AssetGraphSubset._oper: [raised, value]; value is the returned
\* AssetGraphSubset when no check.invariant failed.
_oper(s, o, oper) ==
    LET acc == OperLoop(s, o, oper, asset_keys(o), OperInit(s))
    IN  [raised |-> acc.raised,
         value |-> IF acc.raised
                   THEN EmptyAssetGraphSubset
                   ELSE AssetGraphSubset(acc.result_partition_subsets_by_asset_key,
                                         acc.result_non_partitioned_asset_keys)]

\* AssetGraphSubset.__or__, __sub__, __and__
__or__(s, o) == _oper(s, o, "or")
__sub__(s, o) == _oper(s, o, "sub")
__and__(s, o) == _oper(s, o, "and")

\* AssetGraphSubset.filter_asset_keys
filter_asset_keys(s, keys) ==
    AssetGraphSubset(
        [asset_key \in { k \in DOMAIN s.partitions_subsets_by_asset_key : k \in keys }
            |-> s.partitions_subsets_by_asset_key[asset_key]],
        s.non_partitioned_asset_keys \cap keys)

\* AssetGraphSubset.__eq__
__eq__(s, o) ==
    /\ s.partitions_subsets_by_asset_key = o.partitions_subsets_by_asset_key
    /\ s.non_partitioned_asset_keys = o.non_partitioned_asset_keys

\* Invariant I1 of an instance: no asset key is both a non-partitioned member
\* and the key of a non-empty partitions subset.
I1(s) ==
    \A k \in s.non_partitioned_asset_keys :
        k \in DOMAIN s.partitions_subsets_by_asset_key
            => Len_(s.partitions_subsets_by_asset_key[k]) = 0

\* ------------------------------------------------------------ AssetGraph
\* The AssetGraph as this file reads it: all_asset_keys, and the
\* PartitionsDefinition of each partitioned asset key.
AssetGraph(all_keys, partitions_defs) ==
    [all_asset_keys |-> all_keys, partitions_defs_by_key |-> partitions_defs]

EmptyAssetGraph == AssetGraph({}, <<>>)

AllAssetGraphs ==
    UNION { { AssetGraph(K, f) :
                f \in UNION { [D -> PartitionsDefs] : D \in SUBSET K } } :
            K \in SUBSET AssetKeys }

\* AssetGraph.get_partitions_def: the definition, or None (also for an asset
\* key the graph does not know).
get_partitions_def(graph, asset_key) ==
    IF asset_key \in DOMAIN graph.partitions_defs_by_key
    THEN graph.partitions_defs_by_key[asset_key]
    ELSE NoPartitionsDef

\* PartitionsDefinition.empty_subset
empty_subset(partitions_def) == {}

\* PartitionsSubset.with_partition_keys
with_partition_keys(subset, partition_keys) == subset \cup partition_keys

\* ------------------------------------------------ from_asset_partition_set
\* partitions_by_asset_key after the loop: the defaultdict(set) has a key for
\* each asset seen with a partition key that is not None.
partitions_by_asset_key(pairs) ==
    [asset_key \in { ap[1] : ap \in { x \in pairs : x[2] # NoPartitionKey } }
        |-> { ap[2] : ap \in { x \in pairs : x[1] = asset_key /\ x[2] # NoPartitionKey } }]

\* non_partitioned_asset_keys after the loop: every asset seen with None.
non_partitioned_of_pairs(pairs) ==
    { ap[1] : ap \in { x \in pairs : x[2] = NoPartitionKey } }

\* AssetGraphSubset.from_asset_partition_set: [raised, value]. The cast of
\* get_partitions_def's result checks nothing: None.empty_subset() raises.
from_asset_partition_set(pairs, graph) ==
    LET by_key == partitions_by_asset_key(pairs)
        raised == \E asset_key \in DOMAIN by_key :
                      get_partitions_def(graph, asset_key) = NoPartitionsDef
    IN  [raised |-> raised,
         value |-> IF raised
                   THEN EmptyAssetGraphSubset
                   ELSE AssetGraphSubset(
                            [asset_key \in DOMAIN by_key |->
                                with_partition_keys(
                                    empty_subset(get_partitions_def(graph, asset_key)),
                                    by_key[asset_key])],
                            non_partitioned_of_pairs(pairs))]

\* ---------------------------------------------------------------- storage
\* AssetKey.to_user_string / AssetKey.from_user_string: the reversible string
\* form of an asset key, here the one-component path of the key.
to_user_string(asset_key) == <<asset_key>>
from_user_string(str) == str[1]

\* The elements of a set as a list, in increasing order.
RECURSIVE SortedList(_)
SortedList(S) ==
    IF S = {}
    THEN <<>>
    ELSE LET least == CHOOSE x \in S : \A y \in S : x <= y
         IN  <<least>> \o SortedList(S \ {least})

\* PartitionsSubset.serialize: the payload, the list of the partition keys.
serialize(subset) == SortedList(subset)

\* PartitionsDefinition.deserialize_subset
deserialize_subset(partitions_def, value) == { value[i] : i \in DOMAIN value }

\* PartitionsDefinition.get_serializable_unique_identifier, with the dynamic
\* partitions store held fixed.
NoneIdentifier == <<>>
get_serializable_unique_identifier(partitions_def) == <<"partitions_def", partitions_def>>

\* partitions_def.__class__.__name__
NoneClassName == "None"
class_name(partitions_def) ==
    IF partitions_def = "static_partitions_def"
    THEN "StaticPartitionsDefinition"
    ELSE "TimeWindowPartitionsDefinition"

\* PartitionsDefinition.can_deserialize_subset: the stored identifier and the
\* stored class name, where the document has them, are the definition's own.
can_deserialize_subset(partitions_def, value, unique_id, stored_class_name) ==
    /\ unique_id # NoneIdentifier
          => unique_id = get_serializable_unique_identifier(partitions_def)
    /\ stored_class_name # NoneClassName
          => stored_class_name = class_name(partitions_def)

\* A Python dict built from (key, value) items.
DictOf(items) ==
    [key \in { i[1] : i \in items } |-> (CHOOSE i \in items : i[1] = key)[2]]

\* dict.get(key, default)
DictGet(dict, key, default) ==
    IF key \in DOMAIN dict THEN dict[key] ELSE default

\* The stored document: serialized_dict.
Document(subsets, ids, class_names, non_partitioned) ==
    [partitions_subsets_by_asset_key |-> subsets,
     serializable_partitions_def_ids_by_asset_key |-> ids,
     partitions_def_class_names_by_asset_key |-> class_names,
     non_partitioned_asset_keys |-> non_partitioned]

EmptyDocument == Document(<<>>, <<>>, <<>>, <<>>)

\* A faulty variant of StoredItems: only the keys with a non-empty subset
\* (asset_keys) are written.
StoredItemsEffectiveOnly(s) ==
    { k \in DOMAIN s.partitions_subsets_by_asset_key :
        Len_(s.partitions_subsets_by_asset_key[k]) > 0 }

\* The items() of self.partitions_subsets_by_asset_key that to_storage_dict
\* writes.
StoredItems(s) == DOMAIN s.partitions_subsets_by_asset_key

\* AssetGraphSubset.to_storage_dict: [raised, value]; check.not_none fails
\* for a key of the mapping that has no PartitionsDefinition in the graph.
to_storage_dict(s, graph) ==
    LET keys == StoredItems(s)
        raised == \E key \in keys : get_partitions_def(graph, key) = NoPartitionsDef
    IN  [raised |-> raised,
         value |->
            IF raised
            THEN EmptyDocument
            ELSE Document(
                DictOf({ <<to_user_string(key),
                           serialize(s.partitions_subsets_by_asset_key[key])>> :
                         key \in keys }),
                DictOf({ <<to_user_string(key),
                           get_serializable_unique_identifier(
                               get_partitions_def(graph, key))>> :
                         key \in keys }),
                DictOf({ <<to_user_string(key),
                           class_name(get_partitions_def(graph, key))>> :
                         key \in keys }),
                [i \in DOMAIN SortedList(s.non_partitioned_asset_keys) |->
                    to_user_string(SortedList(s.non_partitioned_asset_keys)[i])])]

\* The call partitions_def.can_deserialize_subset(value, ...) that
\* can_deserialize and from_storage_dict both make for a stored entry.
EntryCanDeserialize(serialized_dict, partitions_def, key) ==
    can_deserialize_subset(
        partitions_def,
        serialized_dict["partitions_subsets_by_asset_key"][key],
        DictGet(DictGet(serialized_dict,
                        "serializable_partitions_def_ids_by_asset_key", <<>>),
                key, NoneIdentifier),
        DictGet(DictGet(serialized_dict,
                        "partitions_def_class_names_by_asset_key", <<>>),
                key, NoneClassName))

\* A faulty variant of CanDeserializeEntry: an entry whose asset has no
\* PartitionsDefinition is skipped instead of returning False.
CanDeserializeEntrySkipsUnpartitioned(serialized_dict, graph, key) ==
    LET partitions_def == get_partitions_def(graph, from_user_string(key))
    IN  IF partitions_def = NoPartitionsDef
        THEN TRUE
        ELSE EntryCanDeserialize(serialized_dict, partitions_def, key)

\* The body of the loop of can_deserialize for one stored entry: TRUE when
\* the loop goes on, FALSE when it returns False.
CanDeserializeEntry(serialized_dict, graph, key) ==
    LET partitions_def == get_partitions_def(graph, from_user_string(key))
    IN  IF partitions_def = NoPartitionsDef
        THEN FALSE
        ELSE EntryCanDeserialize(serialized_dict, partitions_def, key)

\* for key, value in serialized_dict["partitions_subsets_by_asset_key"]
\* .items(): the loop returns False at the first entry that fails.
RECURSIVE CanDeserializeLoop(_, _, _)
CanDeserializeLoop(serialized_dict, graph, keys) ==
    IF keys = {}
    THEN TRUE
    ELSE LET key == CHOOSE k \in keys : TRUE
         IN  IF ~CanDeserializeEntry(serialized_dict, graph, key)
             THEN FALSE
             ELSE CanDeserializeLoop(serialized_dict, graph, keys \ {key})

\* AssetGraphSubset.can_deserialize
can_deserialize(serialized_dict, graph) ==
    CanDeserializeLoop(serialized_dict, graph,
                       DOMAIN serialized_dict["partitions_subsets_by_asset_key"])

\* A faulty variant of FromStorageEntry: the check that the asset key is
\* still in the graph is missing.
FromStorageEntryIgnoresRemoved(serialized_dict, graph, key) ==
    LET asset_key == from_user_string(key)
        partitions_def == get_partitions_def(graph, asset_key)
    IN  IF asset_key \notin graph.all_asset_keys
        THEN "ok"
        ELSE IF partitions_def = NoPartitionsDef
        THEN "no longer partitioned"
        ELSE IF ~EntryCanDeserialize(serialized_dict, partitions_def, key)
        THEN "cannot deserialize"
        ELSE "ok"

\* The body of the loop of from_storage_dict for one stored entry: what the
\* three checks find.
FromStorageEntry(serialized_dict, graph, key) ==
    LET asset_key == from_user_string(key)
        partitions_def == get_partitions_def(graph, asset_key)
    IN  IF asset_key \notin graph.all_asset_keys
        THEN "no longer exists"
        ELSE IF partitions_def = NoPartitionsDef
        THEN "no longer partitioned"
        ELSE IF ~EntryCanDeserialize(serialized_dict, partitions_def, key)
        THEN "cannot deserialize"
        ELSE "ok"

\* for key, value in serialized_dict["partitions_subsets_by_asset_key"]
\* .items(): an entry that fails a check raises
\* DagsterDefinitionChangedDeserializationError unless allow_partial, and is
\* skipped then.
RECURSIVE FromStorageLoop(_, _, _, _, _)
FromStorageLoop(serialized_dict, graph, allow_partial, keys, acc) ==
    IF keys = {} \/ acc.raised
    THEN acc
    ELSE LET key == CHOOSE k \in keys : TRUE
             found == FromStorageEntry(serialized_dict, graph, key)
             next == IF found # "ok"
                     THEN IF ~allow_partial
                          THEN [acc EXCEPT !.raised = TRUE]
                          ELSE acc
                     ELSE [acc EXCEPT !.partitions_subsets_by_asset_key =
                              (from_user_string(key) :>
                                  deserialize_subset(
                                      get_partitions_def(graph, from_user_string(key)),
                                      serialized_dict["partitions_subsets_by_asset_key"][key]))
                              @@ @]
         IN  FromStorageLoop(serialized_dict, graph, allow_partial, keys \ {key}, next)

\* The non_partitioned_asset_keys of the result of from_storage_dict.
StoredNonPartitioned(serialized_dict, graph) ==
    { from_user_string(serialized_dict["non_partitioned_asset_keys"][i]) :
        i \in DOMAIN serialized_dict["non_partitioned_asset_keys"] }
    \cap graph.all_asset_keys

\* AssetGraphSubset.from_storage_dict: [raised, value]
from_storage_dict(serialized_dict, graph, allow_partial) ==
    LET acc == FromStorageLoop(
                   serialized_dict, graph, allow_partial,
                   DOMAIN serialized_dict["partitions_subsets_by_asset_key"],
                   [raised |-> FALSE, partitions_subsets_by_asset_key |-> <<>>])
    IN  [raised |-> acc.raised,
         value |-> IF acc.raised
                   THEN EmptyAssetGraphSubset
                   ELSE AssetGraphSubset(acc.partitions_subsets_by_asset_key,
                                         StoredNonPartitioned(serialized_dict, graph))]

\* ------------------------------------------------------------ the algebra
NoCall == [op |-> "none", left |-> EmptyAssetGraphSubset, keys |-> {},
           raised |-> FALSE, result |-> EmptyAssetGraphSubset]

Call(op, left, keys, r) ==
    [op |-> op, left |-> left, keys |-> keys,
     raised |-> r.raised, result |-> r.value]

NoBuild == [op |-> "none", raised |-> FALSE, result |-> EmptyAssetGraphSubset]

NoOutcome == [op |-> "none", allow_partial |-> FALSE, raised |-> FALSE,
              value |-> EmptyAssetGraphSubset, ok |-> FALSE]

PairsIdle ==
    /\ asset_partitions_set = {}
    /\ built = NoBuild

StorageIdle ==
    /\ stored = EmptyDocument
    /\ written = FALSE
    /\ drifted = FALSE
    /\ outcome = NoOutcome

InitAlgebra ==
    /\ self \in { s \in AllAssetGraphSubsets : I1(s) }
    /\ other \in { s \in AllAssetGraphSubsets : I1(s) }
    /\ last = NoCall

\* self = self | other
Or ==
    LET r == __or__(self, other)
    IN  /\ self' = IF r.raised THEN self ELSE r.value
        /\ last' = Call("or", self, {}, r)
        /\ UNCHANGED <<other, pairs_vars, storage_vars>>

\* self = self - other
Sub ==
    LET r == __sub__(self, other)
    IN  /\ self' = IF r.raised THEN self ELSE r.value
        /\ last' = Call("sub", self, {}, r)
        /\ UNCHANGED <<other, pairs_vars, storage_vars>>

\* self = self & other
And ==
    LET r == __and__(self, other)
    IN  /\ self' = IF r.raised THEN self ELSE r.value
        /\ last' = Call("and", self, {}, r)
        /\ UNCHANGED <<other, pairs_vars, storage_vars>>

\* self = self.filter_asset_keys(keys)
FilterAssetKeys ==
    \E keys \in SUBSET AssetKeys :
        LET r == [raised |-> FALSE, value |-> filter_asset_keys(self, keys)]
        IN  /\ self' = r.value
            /\ last' = Call("filter", self, keys, r)
            /\ UNCHANGED <<other, pairs_vars, storage_vars>>

Init == InitAlgebra /\ PairsIdle /\ StorageIdle /\ asset_graph = EmptyAssetGraph

Next == Or \/ Sub \/ And \/ FilterAssetKeys

Spec == Init /\ [][Next]_vars

\* ------------------------------------------------------------ the builder
\* The members a subset can be asked about, and a builder be given:
\* (asset, partition key) pairs and (asset, None) pairs.
Members == AssetKeys \X (PartitionKeys \cup {NoPartitionKey})

InitPairs ==
    /\ asset_partitions_set \in SUBSET Members
    /\ asset_graph \in AllAssetGraphs
    /\ built = NoBuild
    /\ self = EmptyAssetGraphSubset
    /\ other = EmptyAssetGraphSubset
    /\ last = NoCall
    /\ StorageIdle

\* AssetGraphSubset.from_asset_partition_set(asset_partitions_set, asset_graph)
FromAssetPartitionSet ==
    LET r == from_asset_partition_set(asset_partitions_set, asset_graph)
    IN  /\ built' = [op |-> "from_asset_partition_set",
                     raised |-> r.raised, result |-> r.value]
        /\ UNCHANGED <<asset_partitions_set, asset_graph, algebra_vars,
                       stored, written, drifted, outcome>>

NextPairs == FromAssetPartitionSet

SpecPairs == InitPairs /\ [][NextPairs]_vars

\* ------------------------------------------------------------ the storage
InitStorage ==
    /\ self \in { s \in AllAssetGraphSubsets : I1(s) }
    /\ asset_graph \in AllAssetGraphs
    /\ other = EmptyAssetGraphSubset
    /\ last = NoCall
    /\ PairsIdle
    /\ StorageIdle

\* stored = self.to_storage_dict(dynamic_partitions_store, asset_graph)
ToStorageDict ==
    LET r == to_storage_dict(self, asset_graph)
    IN  /\ stored' = IF r.raised THEN stored ELSE r.value
        /\ written' = IF r.raised THEN written ELSE TRUE
        /\ drifted' = IF r.raised THEN drifted ELSE FALSE
        /\ outcome' = [NoOutcome EXCEPT !.op = "to_storage_dict",
                                        !.raised = r.raised]
        /\ UNCHANGED <<asset_graph, algebra_vars, pairs_vars>>

\* The asset graph changes in one asset key: the asset is removed, becomes
\* unpartitioned, or gets another PartitionsDefinition.
AssetGraphChanges ==
    \E k \in AssetKeys, removed \in BOOLEAN :
        \E partitions_def \in IF removed
                              THEN {NoPartitionsDef}
                              ELSE {NoPartitionsDef} \cup PartitionsDefs :
            LET defs == asset_graph.partitions_defs_by_key
                without == [a \in DOMAIN defs \ {k} |-> defs[a]]
                g == IF removed
                     THEN AssetGraph(asset_graph.all_asset_keys \ {k}, without)
                     ELSE IF partitions_def = NoPartitionsDef
                     THEN AssetGraph(asset_graph.all_asset_keys \cup {k}, without)
                     ELSE AssetGraph(asset_graph.all_asset_keys \cup {k},
                                     (k :> partitions_def) @@ without)
            IN  /\ g # asset_graph
                /\ asset_graph' = g
                /\ drifted' = written
                /\ outcome' = NoOutcome
                /\ UNCHANGED <<stored, written, algebra_vars, pairs_vars>>

\* AssetGraphSubset.from_storage_dict(stored, asset_graph, allow_partial)
FromStorageDict ==
    \E allow_partial \in BOOLEAN :
        LET r == from_storage_dict(stored, asset_graph, allow_partial)
        IN  /\ outcome' = [NoOutcome EXCEPT !.op = "from_storage_dict",
                                            !.allow_partial = allow_partial,
                                            !.raised = r.raised,
                                            !.value = r.value]
            /\ UNCHANGED <<asset_graph, stored, written, drifted,
                           algebra_vars, pairs_vars>>

\* AssetGraphSubset.can_deserialize(stored, asset_graph)
CanDeserialize ==
    /\ outcome' = [NoOutcome EXCEPT !.op = "can_deserialize",
                                    !.ok = can_deserialize(stored, asset_graph)]
    /\ UNCHANGED <<asset_graph, stored, written, drifted,
                   algebra_vars, pairs_vars>>

NextStorage == ToStorageDict \/ AssetGraphChanges \/ FromStorageDict \/ CanDeserialize

SpecStorage == InitStorage /\ [][NextStorage]_vars

\* ------------------------------------------------- claims on the algebra
BinaryOps == {"or", "sub", "and"}

\* C1: intersection has exact set semantics on members: after A & B that did
\* not raise, every bare asset key and every (asset, partition key or None)
\* pair is in the result iff it is in A and in B.
C1_IntersectionExact ==
    (last.op = "and" /\ ~last.raised) =>
        /\ \A k \in AssetKeys :
              contains_asset_key(last.result, k)
                  <=> (contains_asset_key(last.left, k) /\ contains_asset_key(other, k))
        /\ \A m \in Members :
              contains_asset_partition(last.result, m[1], m[2])
                  <=> (/\ contains_asset_partition(last.left, m[1], m[2])
                       /\ contains_asset_partition(other, m[1], m[2]))

\* C2: idempotence: for any subset s, s | s = s, s & s = s, s - s has no
\* effective asset keys, and none of the three raises.
C2_Idempotence ==
    (last.op \in BinaryOps /\ last.left = other) =>
        /\ ~last.raised
        /\ last.op \in {"or", "and"} => __eq__(last.result, last.left)
        /\ last.op = "sub" => asset_keys(last.result) = {}

\* The check.invariant calls of _oper as they read the two operands: some
\* asset key of the right operand fails its check.
SomeCheckFails(s, o) ==
    \E k \in asset_keys(o) :
        IF k \in o.non_partitioned_asset_keys
        THEN k \in DOMAIN s.partitions_subsets_by_asset_key
        ELSE k \in s.non_partitioned_asset_keys

\* C6: difference has exact set semantics on members: after A - B that did
\* not raise, every (asset, partition key or None) pair is in the result iff
\* it is in A and not in B; an asset with no entry in A and a non-empty
\* subset in B does not make the operation fail and has no partition in A - B.
C6_DifferenceExact ==
    (last.op = "sub") =>
        /\ ~last.raised =>
              \A m \in Members :
                  contains_asset_partition(last.result, m[1], m[2])
                      <=> (/\ contains_asset_partition(last.left, m[1], m[2])
                           /\ ~contains_asset_partition(other, m[1], m[2]))
        /\ last.raised => SomeCheckFails(last.left, other)
        /\ ~last.raised =>
              \A k \in DOMAIN other.partitions_subsets_by_asset_key :
                  (/\ k \notin DOMAIN last.left.partitions_subsets_by_asset_key
                   /\ other.partitions_subsets_by_asset_key[k] # {})
                      => \A pk \in PartitionKeys :
                            ~contains_asset_partition(last.result, k, pk)

\* A difference completed whose left operand has no entry for an asset for
\* which the right operand holds a non-empty subset.
C6_Witness ==
    /\ last.op = "sub"
    /\ ~last.raised
    /\ \E k \in DOMAIN other.partitions_subsets_by_asset_key :
          /\ k \notin DOMAIN last.left.partitions_subsets_by_asset_key
          /\ other.partitions_subsets_by_asset_key[k] # {}
    /\ \E m \in Members : contains_asset_partition(last.result, m[1], m[2])

\* An asset key of the left operand, as an entry or as a non-partitioned
\* member, that is not among the right operand's effective asset keys.
LeftOnly(k) ==
    /\ k \notin asset_keys(other)
    /\ \/ k \in DOMAIN last.left.partitions_subsets_by_asset_key
       \/ k \in last.left.non_partitioned_asset_keys

SameEntry(k) ==
    k \in DOMAIN last.left.partitions_subsets_by_asset_key =>
        /\ k \in DOMAIN last.result.partitions_subsets_by_asset_key
        /\ last.result.partitions_subsets_by_asset_key[k]
              = last.left.partitions_subsets_by_asset_key[k]

Inconsistent(a, b) ==
    \E k \in AssetKeys :
        \/ /\ k \in a.non_partitioned_asset_keys
           /\ k \in DOMAIN b.partitions_subsets_by_asset_key
           /\ b.partitions_subsets_by_asset_key[k] # {}
        \/ /\ k \in b.non_partitioned_asset_keys
           /\ k \in DOMAIN a.partitions_subsets_by_asset_key
           /\ a.partitions_subsets_by_asset_key[k] # {}

\* C9: an algebraic operation fails with an invariant violation iff some
\* asset key is a non-partitioned member of one operand and has a non-empty
\* partitions subset in the other.
C9_RaisesIffInconsistent ==
    (last.op \in BinaryOps) => (last.raised <=> Inconsistent(last.left, other))

\* C10: I1 is closed under union, difference, intersection and
\* filter_asset_keys: every instance a sequence of them produces from
\* instances that satisfy I1 satisfies I1.
C10_I1Closed ==
    /\ I1(self)
    /\ I1(other)
    /\ (last.op # "none" /\ ~last.raised) => (I1(last.result) /\ self = last.result)

\* A union completed that added a partitioned entry to a left operand holding
\* a non-partitioned member.
C10_Witness ==
    /\ last.op = "or"
    /\ ~last.raised
    /\ last.left.non_partitioned_asset_keys # {}
    /\ \E k \in DOMAIN self.partitions_subsets_by_asset_key :
          /\ k \notin DOMAIN last.left.partitions_subsets_by_asset_key
          /\ self.partitions_subsets_by_asset_key[k] # {}

\* ------------------------------------------------- claims on the builder
\* C7: from_asset_partition_set classifies assets exactly: the keys of the
\* result's mapping are the assets that occur with a partition key that is
\* not None, each mapped to exactly those keys; the non-partitioned members
\* are the assets that occur only with None; the result satisfies I1.
C7_ClassifiesExactly ==
    (built.op = "from_asset_partition_set" /\ ~built.raised) =>
        LET keyed == { a \in AssetKeys :
                         \E pk \in PartitionKeys : <<a, pk>> \in asset_partitions_set }
            only_none == { a \in AssetKeys \ keyed :
                             <<a, NoPartitionKey>> \in asset_partitions_set }
        IN  /\ DOMAIN built.result.partitions_subsets_by_asset_key = keyed
            /\ \A a \in keyed :
                  built.result.partitions_subsets_by_asset_key[a]
                      = { pk \in PartitionKeys : <<a, pk>> \in asset_partitions_set }
            /\ built.result.non_partitioned_asset_keys = only_none
            /\ I1(built.result)

\* ------------------------------------------------- claims on the storage
\* The asset keys the stored document references as keys of partitioned
\* entries, and in its non-partitioned list.
StoredPartitionedKeys ==
    { from_user_string(key) : key \in DOMAIN stored.partitions_subsets_by_asset_key }

StoredNonPartitionedKeys ==
    { from_user_string(stored.non_partitioned_asset_keys[i]) :
        i \in DOMAIN stored.non_partitioned_asset_keys }

Omits(s, k) ==
    /\ k \notin DOMAIN s.partitions_subsets_by_asset_key
    /\ k \notin s.non_partitioned_asset_keys

\* What the claim says of the three calls on a document that references the
\* asset keys absent, which the graph does not know.
DriftTolerant(absent) ==
    /\ (outcome.op = "from_storage_dict" /\ outcome.allow_partial) =>
          (~outcome.raised /\ \A k \in absent : Omits(outcome.value, k))
    /\ (outcome.op = "from_storage_dict" /\ ~outcome.allow_partial) =>
          outcome.raised
    /\ outcome.op = "can_deserialize" => ~outcome.ok

\* C3 as stated: for a stored document that references an asset key absent
\* from the graph, as the key of a partitioned entry or in the
\* non-partitioned list, from_storage_dict with allow_partial succeeds and
\* omits the key, without allow_partial it raises, and can_deserialize
\* returns False.
C3_DriftTolerance ==
    LET absent == (StoredPartitionedKeys \cup StoredNonPartitionedKeys)
                      \ asset_graph.all_asset_keys
    IN  absent # {} => DriftTolerant(absent)

\* Every partitioned entry of the stored document passes the three checks
\* against the graph.
NoPartitionedDrift ==
    \A key \in DOMAIN stored.partitions_subsets_by_asset_key :
        LET k == from_user_string(key)
        IN  /\ k \in asset_graph.all_asset_keys
            /\ get_partitions_def(asset_graph, k) # NoPartitionsDef
            /\ can_deserialize_subset(
                   get_partitions_def(asset_graph, k),
                   stored.partitions_subsets_by_asset_key[key],
                   stored.serializable_partitions_def_ids_by_asset_key[key],
                   stored.partitions_def_class_names_by_asset_key[key])

\* C3 amended: when the absent asset key is the key of a partitioned entry,
\* the three calls behave as stated. When it is only in the non-partitioned
\* list, from_storage_dict omits it in both modes whenever it succeeds, it
\* succeeds with allow_partial, and the key alone makes neither the strict
\* call raise nor can_deserialize return False.
C3_DriftToleranceAmended ==
    LET absent_partitioned == StoredPartitionedKeys \ asset_graph.all_asset_keys
        absent_listed == StoredNonPartitionedKeys \ asset_graph.all_asset_keys
    IN  /\ absent_partitioned # {} =>
              DriftTolerant(absent_partitioned \cup absent_listed)
        /\ absent_listed # {} =>
              /\ (outcome.op = "from_storage_dict" /\ outcome.allow_partial) =>
                    ~outcome.raised
              /\ (outcome.op = "from_storage_dict" /\ ~outcome.raised) =>
                    \A k \in absent_listed : Omits(outcome.value, k)
              /\ NoPartitionedDrift =>
                    /\ outcome.op = "from_storage_dict" => ~outcome.raised
                    /\ outcome.op = "can_deserialize" => outcome.ok

\* A partial read completed of a document that references an absent asset
\* key as a partitioned entry and another in its non-partitioned list.
C3_Witness ==
    /\ outcome.op = "from_storage_dict"
    /\ outcome.allow_partial
    /\ ~outcome.raised
    /\ StoredPartitionedKeys \ asset_graph.all_asset_keys # {}
    /\ StoredNonPartitionedKeys \ asset_graph.all_asset_keys # {}

\* C4: round trip: when the document was written from self under the graph
\* as it is now, and the non-partitioned keys of self are known to the
\* graph, from_storage_dict returns a subset equal to self in both
\* allow_partial modes, and does not raise.
C4_RoundTrip ==
    (/\ outcome.op = "from_storage_dict"
     /\ written
     /\ ~drifted
     /\ self.non_partitioned_asset_keys \subseteq asset_graph.all_asset_keys) =>
        /\ ~outcome.raised
        /\ __eq__(outcome.value, self)

\* A strict read returned a subset with an entry mapped to an empty subset,
\* an entry mapped to a non-empty one or a non-partitioned member.
C4_Witness ==
    /\ outcome.op = "from_storage_dict"
    /\ ~outcome.allow_partial
    /\ written
    /\ ~drifted
    /\ ~outcome.raised
    /\ \E k \in DOMAIN outcome.value.partitions_subsets_by_asset_key :
          outcome.value.partitions_subsets_by_asset_key[k] = {}
    /\ asset_keys(outcome.value) # {}

\* C5: can_deserialize is an exact pre-flight check: it returns True iff the
\* strict from_storage_dict on the same document and graph does not raise,
\* and returns False exactly when some stored partitioned entry's asset is
\* unknown to the graph, has no partitions definition, or fails its
\* definition's compatibility check.
C5_ExactPreflight ==
    /\ outcome.op = "can_deserialize" =>
          /\ outcome.ok <=> ~from_storage_dict(stored, asset_graph, FALSE).raised
          /\ outcome.ok <=> NoPartitionedDrift
    /\ (outcome.op = "from_storage_dict" /\ ~outcome.allow_partial) =>
          (outcome.raised <=> ~can_deserialize(stored, asset_graph))

\* can_deserialize returned False for a document whose partitioned assets
\* the graph all knows, one of them no longer partitioned.
C5_Witness ==
    /\ outcome.op = "can_deserialize"
    /\ ~outcome.ok
    /\ StoredPartitionedKeys \subseteq asset_graph.all_asset_keys
    /\ \E k \in StoredPartitionedKeys :
          get_partitions_def(asset_graph, k) = NoPartitionsDef

====
